---- MODULE Spec2Model ----
(***************************************************************************)
(* The API chat LLM of chat-ui/src/services/conversations.ts               *)
(* (makeOpenAiApiChatLlm): one turn of answerAwaited computes the window   *)
(* of available functions from the last message, rewrites the conversation *)
(* with a fresh system prompt, asks the completion service once and, when  *)
(* the reply is a function call, dispatches it.                            *)
(*                                                                         *)
(* Encoding.  An optional value (undefined or a value) is a sequence of    *)
(* length 0 or 1.  A string is a sequence of tokens, so "" is <<>> and     *)
(* string concatenation is \o.                                             *)
(***************************************************************************)
EXTENDS Integers, Sequences, FiniteSets, TLC

\* Number of answerAwaited calls the caller makes on one conversation.
MaxTurns == 2
\* maxNumDynamicFunctions is a constructor parameter (3 when omitted): the values
\* 0..MaxCap are tried, so that the catalog's few names can exceed it.
MaxCap == 1
\* Longest list the catalog search returns.
MaxFound == 1
\* Longest prior conversation handed to the rewrite when it is checked on its own.
MaxPrior == 4
MaxBase == 2
MaxCarried == 3

Undefined == <<>>
Some(x) == <<x>>

RECURSIVE Reverse(_)
Reverse(s) == IF s = <<>> THEN <<>> ELSE Append(Reverse(Tail(s)), Head(s))

Range(s) == {s[i] : i \in 1..Len(s)}

\* array.map(f => f.field) for the three projections the code uses
RECURSIVE MapName(_)
MapName(s) == IF s = <<>> THEN <<>> ELSE <<Head(s).name>> \o MapName(Tail(s))

RECURSIVE MapPersistedFunction(_)
MapPersistedFunction(s) ==
    IF s = <<>> THEN <<>>
    ELSE <<Head(s).persistedFunction>> \o MapPersistedFunction(Tail(s))

\* names.join(sep) as tokens
RECURSIVE Join(_, _)
Join(names, sep) ==
    IF names = <<>> THEN <<>>
    ELSE IF Len(names) = 1 THEN <<names[1]>>
    ELSE <<names[1], sep>> \o Join(Tail(names), sep)

(***************************************************************************)
(* Function definitions.  A PersistedFunctionDefinition is its name and    *)
(* whether it carries httpVerb and path (the built-in one does not).       *)
(***************************************************************************)
FindApiSpecActionName == "find_api_spec_action"

DynamicNames == {"getWeather", "bookFlight"}

baseOpenAiFunctionDefinition == [name |-> FindApiSpecActionName, http |-> FALSE]

HttpDefinition(n) == [name |-> n, http |-> TRUE]

\* What the catalog can return: HTTP actions, one of them using the reserved name.
CatalogDefinitions == {HttpDefinition(n) : n \in DynamicNames \cup {FindApiSpecActionName}}

makeFindApiSpecAction ==
    [name |-> FindApiSpecActionName,
     persistedFunction |-> baseOpenAiFunctionDefinition,
     function |-> "findApiSpecFunctionDefinition",
     dynamic |-> FALSE]

baseFunctions == <<makeFindApiSpecAction>>

makeDynamicHttpLlmFunctionFromFunctionDefinition(def) ==
    [name |-> def.name,
     persistedFunction |-> def,
     function |-> "executeHttpApiRequest",
     dynamic |-> TRUE]

(***************************************************************************)
(* getMaxAvailableFunctionDefinitions                                      *)
(***************************************************************************)
\* Mutant of UniqueNamesFilter: the filter lets every element through.
UniqueNamesFilterKeepsAll(fxns, uniqueFunctionNames) == fxns

\* the .filter with the uniqueFunctionNames set: keeps the first of each name
RECURSIVE UniqueNamesFilter(_, _)
UniqueNamesFilter(fxns, uniqueFunctionNames) ==
    IF fxns = <<>> THEN <<>>
    ELSE IF Head(fxns).name \in uniqueFunctionNames
         THEN UniqueNamesFilter(Tail(fxns), uniqueFunctionNames)
         ELSE <<Head(fxns)>>
              \o UniqueNamesFilter(Tail(fxns), uniqueFunctionNames \cup {Head(fxns).name})

\* Mutant of CounterFilter: base functions always stay and only the newest maxNum
\* of the others do.
RECURSIVE CounterFilterCapsDynamic(_, _, _, _)
CounterFilterCapsDynamic(fxns, counter, baseFunctionDefinitions, maxNum) ==
    IF fxns = <<>> THEN <<>>
    ELSE LET llmFunc == Head(fxns)
             isBase == \E i \in 1..Len(baseFunctionDefinitions) :
                          baseFunctionDefinitions[i].name = llmFunc.name
             rest == CounterFilterCapsDynamic(Tail(fxns), counter + 1,
                                              baseFunctionDefinitions, maxNum)
         IN  IF isBase \/ counter < maxNum THEN <<llmFunc>> \o rest ELSE rest

\* the .filter of the eviction pass, over the reversed copy, counter threaded through
RECURSIVE CounterFilter(_, _, _, _)
CounterFilter(fxns, counter, baseFunctionDefinitions, maxNum) ==
    IF fxns = <<>> THEN <<>>
    ELSE LET llmFunc == Head(fxns)
             toInclude ==
                 \/ counter <= maxNum
                 \/ ~ \E i \in 1..Len(baseFunctionDefinitions) :
                        baseFunctionDefinitions[i].name = llmFunc.name
             rest == CounterFilter(Tail(fxns), counter + 1, baseFunctionDefinitions, maxNum)
         IN  IF toInclude THEN <<llmFunc>> \o rest ELSE rest

\* Mutant of getMaxAvailableFunctionDefinitions: the eviction pass is entered on
\* the length of the deduplicated list.
getMaxAvailableFunctionDefinitionsOnMergedLength(availableFunctionDefinitions, baseFunctionDefinitions, maxNum) ==
    LET availableFunctionsCopy ==
            UniqueNamesFilter(baseFunctionDefinitions \o availableFunctionDefinitions, {})
    IN  IF Len(availableFunctionsCopy) > maxNum
        THEN Reverse(CounterFilter(Reverse(availableFunctionsCopy), 0,
                                   baseFunctionDefinitions, maxNum))
        ELSE availableFunctionsCopy

getMaxAvailableFunctionDefinitions(availableFunctionDefinitions, baseFunctionDefinitions, maxNum) ==
    LET availableFunctionsCopy ==
            UniqueNamesFilter(baseFunctionDefinitions \o availableFunctionDefinitions, {})
    IN  IF Len(availableFunctionDefinitions) > maxNum
        THEN Reverse(CounterFilter(Reverse(availableFunctionsCopy), 0,
                                   baseFunctionDefinitions, maxNum))
        ELSE availableFunctionsCopy

(***************************************************************************)
(* makeAvailableLlmFunctionsFromFunctionDefinitions                        *)
(***************************************************************************)
\* Mutant of MapToLlmFunctions: every definition is wrapped as a dynamic HTTP
\* function, without the lookup among the base functions.
RECURSIVE MapToLlmFunctionsAllDynamic(_, _)
MapToLlmFunctionsAllDynamic(defs, baseLlmFunctions) ==
    IF defs = <<>> THEN <<>>
    ELSE <<makeDynamicHttpLlmFunctionFromFunctionDefinition(Head(defs))>>
         \o MapToLlmFunctionsAllDynamic(Tail(defs), baseLlmFunctions)

RECURSIVE MapToLlmFunctions(_, _)
MapToLlmFunctions(defs, baseLlmFunctions) ==
    IF defs = <<>> THEN <<>>
    ELSE LET functionDefinition == Head(defs)
             found == {i \in 1..Len(baseLlmFunctions) :
                          baseLlmFunctions[i].name = functionDefinition.name}
             first == CHOOSE i \in found : \A j \in found : i <= j
         IN  <<IF found # {}
               THEN baseLlmFunctions[first]
               ELSE makeDynamicHttpLlmFunctionFromFunctionDefinition(functionDefinition)>>
             \o MapToLlmFunctions(Tail(defs), baseLlmFunctions)

makeAvailableLlmFunctionsFromFunctionDefinitions(functionDefinitions, baseLlmFunctions, maxNum) ==
    MapToLlmFunctions(
        getMaxAvailableFunctionDefinitions(functionDefinitions,
                                           MapPersistedFunction(baseLlmFunctions),
                                           maxNum),
        baseLlmFunctions)

(***************************************************************************)
(* makeSystemPrompt and makeUserSystemPromptContext                        *)
(***************************************************************************)
systemPromptPersonality == "You are helpful."

baseSystemPrompt ==
    <<systemPromptPersonality, "\n",
      "Use the find_api_spec_action function [...] ask the user to confirm.", "\n">>

IsDynamic(f) == f.dynamic

IsWhitespace(tok) == tok \in {"\n", "\n  ", " "}

\* String.prototype.trimEnd on a token string
RECURSIVE TrimEnd(_)
TrimEnd(str) ==
    IF str = <<>> THEN <<>>
    ELSE IF IsWhitespace(str[Len(str)]) THEN TrimEnd(SubSeq(str, 1, Len(str) - 1))
    ELSE str

ContextField(args, field, title) ==
    IF args[field] # Undefined THEN <<title, "\n", args[field][1], "\n">> ELSE <<>>

makeUserSystemPromptContext(args) ==
    TrimEnd(<<"The following information is available for you to use for calling functions:",
              "\n">>
            \o ContextField(args, "headers", "Headers:")
            \o ContextField(args, "body", "Request body:")
            \o ContextField(args, "pathParameters", "Path parameters:")
            \o ContextField(args, "queryParameters", "Query parameters:")
            \o <<"\n  ">>)

\* Mutant of makeSystemPrompt: every function of the window is named, dynamic or not.
makeSystemPromptNamingAll(basePrompt, currentFunctions, staticArgs) ==
    LET systemPrompt ==
            IF Len(currentFunctions) > 0
            THEN basePrompt
                 \o <<"Call the functions ">>
                 \o Join(MapName(MapPersistedFunction(currentFunctions)), ", ")
                 \o <<" only when you have all necessary parameters [...]">>
            ELSE basePrompt
    IN  IF staticArgs # Undefined
        THEN systemPrompt \o <<"\n">> \o makeUserSystemPromptContext(staticArgs[1])
        ELSE systemPrompt

makeSystemPrompt(basePrompt, currentFunctions, staticArgs) ==
    LET dynamicFuncs == SelectSeq(currentFunctions, IsDynamic)
        systemPrompt ==
            IF Len(dynamicFuncs) > 0
            THEN basePrompt
                 \o <<"Call the functions ">>
                 \o Join(MapName(MapPersistedFunction(dynamicFuncs)), ", ")
                 \o <<" only when you have all necessary parameters [...]">>
            ELSE basePrompt
    IN  IF staticArgs # Undefined
        THEN systemPrompt \o <<"\n">> \o makeUserSystemPromptContext(staticArgs[1])
        ELSE systemPrompt

(***************************************************************************)
(* Messages (OpenAiChatMessage) and updateConversationWithNewSystemPrompt  *)
(***************************************************************************)
Message(role, content, name, functionCall, functions) ==
    [role |-> role, content |-> content, name |-> name,
     functionCall |-> functionCall, functions |-> functions]

SystemMessage(content) == Message("system", Some(content), Undefined, Undefined, Undefined)

UserMessage(content) == Message("user", Some(content), Undefined, Undefined, Undefined)

IsNotSystem(message) == message.role # "system"

\* `if (query)`: undefined and the empty string are both falsy
Truthy(q) == q # Undefined /\ q[1] # <<>>

\* Mutant of updateConversationWithNewSystemPrompt: the earlier system messages stay.
updateConversationKeepingSystemMessages(basePrompt, llmFunctions, msgs, q, staticArgs) ==
    LET currentMessages ==
            <<SystemMessage(makeSystemPrompt(basePrompt, llmFunctions, staticArgs))>> \o msgs
    IN  IF Truthy(q) THEN Append(currentMessages, UserMessage(q[1])) ELSE currentMessages

updateConversationWithNewSystemPrompt(basePrompt, llmFunctions, msgs, q, staticArgs) ==
    LET currentMessages ==
            <<SystemMessage(makeSystemPrompt(basePrompt, llmFunctions, staticArgs))>>
            \o SelectSeq(msgs, IsNotSystem)
    IN  IF Truthy(q) THEN Append(currentMessages, UserMessage(q[1])) ELSE currentMessages

\* newMessages.map(({content, role, name, functionCall}) => ...): functions is dropped
RECURSIVE StripFunctions(_)
StripFunctions(msgs) ==
    IF msgs = <<>> THEN <<>>
    ELSE <<[Head(msgs) EXCEPT !.functions = Undefined]>> \o StripFunctions(Tail(msgs))

\* messages[messages.length - 1].functions ?? []
LastFunctions(msgs) ==
    IF msgs[Len(msgs)].functions = Undefined THEN <<>> ELSE msgs[Len(msgs)].functions[1]

(***************************************************************************)
(* External collaborators: what they can answer                            *)
(***************************************************************************)
ValidArguments == "{\"query\":\"travel\"}"

MalformedArguments == "travel"

ArgumentPayloads == {ValidArguments, MalformedArguments}

\* JSON.parse: the parsed value, or Undefined where it throws a SyntaxError
JSONparse(text) == IF text = ValidArguments THEN Some([query |-> "travel"]) ELSE Undefined

\* JSON.stringify of a non-string response
JSONstringify(value) == <<"{">> \o value.body \o <<"}">>

\* what executeHttpApiRequest resolves to: a string or structured data
HttpResponses == {[isString |-> TRUE, body |-> <<"sunny">>],
                  [isString |-> FALSE, body |-> <<"temp", "21">>]}

\* the names the completion service may ask for, one of them unknown to every window
CallableNames == DynamicNames \cup {FindApiSpecActionName, "clear_api_spec_actions"}

PlainResponseMessage == Message("assistant", Some(<<"Hello!">>), Undefined, Undefined, Undefined)

FunctionCallMessage(name, arguments) ==
    Message("assistant", Undefined, Undefined,
            Some([name |-> name, arguments |-> arguments]), Undefined)

ResponseMessages ==
    {PlainResponseMessage}
    \cup {FunctionCallMessage(n, a) : n \in CallableNames, a \in ArgumentPayloads}

\* ChatCompletions.choices: none, one without a message, one with a message
ChatCompletions ==
    {<<>>, <<[message |-> Undefined]>>}
    \cup {<<[message |-> Some(m)]>> : m \in ResponseMessages}

\* the catalog search's answers: lists of at most MaxFound definitions
FoundLists == UNION {[1..n -> CatalogDefinitions] : n \in 0..MaxFound}

Queries == {Undefined, Some(<<>>), Some(<<"hi">>)}

StaticArgsChoices ==
    {Undefined,
     Some([headers |-> Some("Authorization: x"), body |-> Undefined,
           pathParameters |-> Undefined, queryParameters |-> Some("units: metric")])}

\* the conversations a caller starts with
InitialConversations == {<<>>, <<UserMessage(<<"hello">>)>>}

(***************************************************************************)
(* State                                                                   *)
(***************************************************************************)
VARIABLES
    messages,                \* the caller's conversation
    maxNumDynamicFunctions,  \* constructor parameter of makeOpenAiApiChatLlm
    staticHttpRequestArgs,   \* the caller's static request context
    turns,                   \* answerAwaited calls made so far
    pc,                      \* where the running answerAwaited call is
    query,                   \* its query parameter
    availableLlmFunctions,   \* its window
    newMessages,             \* its working copy of the conversation
    request,                 \* what it sent to getChatCompletions
    responseMessage,         \* the message the completion service answered with
    functionToCall,          \* the function handleOpenAiFunctionCall resolved
    completionCalls,         \* getChatCompletions calls of this turn
    invocations,             \* functionToCall.function(...) calls of this turn
    functionResponse,        \* what the dynamic function resolved to
    apiSpecActions,          \* what the catalog search resolved to
    thrown,                  \* the error the call rejected with
    suspended,               \* the call of another conversation, pending at an await
    overlapped,              \* both calls have been pending at once
    windowArgs,              \* arguments of a getMaxAvailableFunctionDefinitions call
    windowResult             \* what that call returned

vars == <<messages, maxNumDynamicFunctions, staticHttpRequestArgs, turns, pc, query,
          availableLlmFunctions, newMessages, request, responseMessage, functionToCall,
          completionCalls, invocations, functionResponse, apiSpecActions, thrown,
          suspended, overlapped, windowArgs, windowResult>>

\* what answerAwaited on one conversation never touches
aside == <<suspended, overlapped, windowArgs, windowResult>>

\* one conversation only, and no separate call of the window function
NothingAside ==
    /\ suspended = Undefined
    /\ overlapped = FALSE
    /\ windowArgs = Undefined
    /\ windowResult = Undefined

config == <<maxNumDynamicFunctions, staticHttpRequestArgs>>

results == <<functionResponse, apiSpecActions>>

Init ==
    /\ messages \in InitialConversations
    /\ maxNumDynamicFunctions \in 0..MaxCap
    /\ staticHttpRequestArgs \in StaticArgsChoices
    /\ turns = 0
    /\ pc = "idle"
    /\ query = Undefined
    /\ availableLlmFunctions = <<>>
    /\ newMessages = <<>>
    /\ request = Undefined
    /\ responseMessage = Undefined
    /\ functionToCall = Undefined
    /\ completionCalls = 0
    /\ invocations = <<>>
    /\ functionResponse = Undefined
    /\ apiSpecActions = Undefined
    /\ thrown = Undefined
    /\ NothingAside

(***************************************************************************)
(* answerAwaited, up to the await of getChatCompletions                    *)
(***************************************************************************)
Throw(error) ==
    /\ pc' = "threw"
    /\ thrown' = Some(error)

AnswerAwaited(q) ==
    /\ pc = "idle"
    /\ turns < MaxTurns
    /\ turns' = turns + 1
    /\ query' = q
    /\ IF messages = <<>>
       THEN \* messages[messages.length - 1] is undefined: reading .functions throws
            /\ Throw("TypeError")
            /\ UNCHANGED <<availableLlmFunctions, newMessages, request, completionCalls>>
       ELSE LET llmFunctions ==
                    makeAvailableLlmFunctionsFromFunctionDefinitions(
                        LastFunctions(messages), baseFunctions, maxNumDynamicFunctions)
                rewritten ==
                    updateConversationWithNewSystemPrompt(
                        baseSystemPrompt, llmFunctions, messages, q, staticHttpRequestArgs)
            IN  /\ availableLlmFunctions' = llmFunctions
                /\ newMessages' = rewritten
                /\ request' = Some([messages |-> StripFunctions(rewritten),
                                    functions |-> MapPersistedFunction(llmFunctions),
                                    functionCall |-> "auto"])
                /\ completionCalls' = completionCalls + 1
                /\ pc' = "getChatCompletions"
                /\ UNCHANGED thrown
    /\ UNCHANGED <<messages, config, aside, results, responseMessage, functionToCall, invocations>>

(***************************************************************************)
(* answerAwaited after getChatCompletions resolved                         *)
(***************************************************************************)
\* getChatMessageFromOpenAiResponse: the message, or Undefined where it throws
getChatMessageFromOpenAiResponse(choices) ==
    IF choices = <<>> \/ choices[1].message = Undefined
    THEN Undefined
    ELSE choices[1].message

\* availableLlmFunctions.find(f => f.persistedFunction.definition.name === name)
FindFunction(llmFunctions, name) ==
    LET found == {i \in 1..Len(llmFunctions) : llmFunctions[i].persistedFunction.name = name}
    IN  IF found = {} THEN Undefined
        ELSE Some(llmFunctions[CHOOSE i \in found : \A j \in found : i <= j])

\* Mutant of NoMessageReturned: the completion call is issued again.
NoMessageReturnedRetries(choices) ==
    /\ pc = "getChatCompletions"
    /\ getChatMessageFromOpenAiResponse(choices) = Undefined
    /\ completionCalls < 3
    /\ completionCalls' = completionCalls + 1
    /\ UNCHANGED <<messages, config, aside, results, turns, pc, query, availableLlmFunctions,
                   newMessages, request, responseMessage, functionToCall, invocations, thrown>>

NoMessageReturned(choices) ==
    /\ pc = "getChatCompletions"
    /\ getChatMessageFromOpenAiResponse(choices) = Undefined
    /\ Throw("No message returned from OpenAI API")
    /\ UNCHANGED <<messages, config, aside, results, turns, query, availableLlmFunctions, newMessages,
                   request, responseMessage, functionToCall, completionCalls, invocations>>

\* Mutant of TagWithFunctions: the reply is pushed as received.
TagWithNothing(message, llmFunctions) == message

\* {...responseMessage, functions: availableLlmFunctions.map(f => f.persistedFunction)}
TagWithFunctions(message, llmFunctions) ==
    [message EXCEPT !.functions = Some(MapPersistedFunction(llmFunctions))]

\* Mutant of PlainReply: the reply is pushed onto the caller's array as well.
PlainReplyPushedOntoMessages(choices) ==
    /\ pc = "getChatCompletions"
    /\ getChatMessageFromOpenAiResponse(choices) # Undefined
    /\ LET message == getChatMessageFromOpenAiResponse(choices)[1]
       IN  /\ message.functionCall = Undefined
           /\ responseMessage' = Some(message)
           /\ newMessages' =
                  Append(newMessages, TagWithFunctions(message, availableLlmFunctions))
           /\ messages' =
                  Append(messages, TagWithFunctions(message, availableLlmFunctions))
    /\ pc' = "returned"
    /\ UNCHANGED <<config, aside, results, turns, query, availableLlmFunctions, request,
                   functionToCall, completionCalls, invocations, thrown>>

PlainReply(choices) ==
    /\ pc = "getChatCompletions"
    /\ getChatMessageFromOpenAiResponse(choices) # Undefined
    /\ LET message == getChatMessageFromOpenAiResponse(choices)[1]
       IN  /\ message.functionCall = Undefined
           /\ responseMessage' = Some(message)
           /\ newMessages' =
                  Append(newMessages, TagWithFunctions(message, availableLlmFunctions))
    /\ pc' = "returned"
    /\ UNCHANGED <<messages, config, aside, results, turns, query, availableLlmFunctions, request,
                   functionToCall, completionCalls, invocations, thrown>>

\* handleOpenAiFunctionCall, first branch, up to the await of the function
CallDynamicFunction(choices) ==
    /\ pc = "getChatCompletions"
    /\ getChatMessageFromOpenAiResponse(choices) # Undefined
    /\ LET message == getChatMessageFromOpenAiResponse(choices)[1]
       IN  /\ message.functionCall # Undefined
           /\ LET toCall == FindFunction(availableLlmFunctions, message.functionCall[1].name)
              IN  /\ toCall # Undefined
                  /\ toCall[1].dynamic
                  /\ functionToCall' = toCall
                  /\ invocations' =
                         Append(invocations,
                                [name |-> toCall[1].name,
                                 function |-> toCall[1].function,
                                 parsed |-> FALSE,
                                 arguments |-> message.functionCall[1].arguments])
           /\ responseMessage' = Some(message)
    /\ pc' = "function"
    /\ UNCHANGED <<messages, config, aside, results, turns, query, availableLlmFunctions, newMessages,
                   request, completionCalls, thrown>>

\* handleOpenAiFunctionCall, second branch, up to the await of the function
CallFindApiSpecAction(choices) ==
    /\ pc = "getChatCompletions"
    /\ getChatMessageFromOpenAiResponse(choices) # Undefined
    /\ LET message == getChatMessageFromOpenAiResponse(choices)[1]
       IN  /\ message.functionCall # Undefined
           /\ LET toCall == FindFunction(availableLlmFunctions, message.functionCall[1].name)
              IN  /\ toCall # Undefined
                  /\ ~ toCall[1].dynamic
                  /\ toCall[1].name = FindApiSpecActionName
                  /\ functionToCall' = toCall
                  /\ IF JSONparse(message.functionCall[1].arguments) = Undefined
                     THEN /\ Throw("SyntaxError")
                          /\ UNCHANGED invocations
                     ELSE /\ invocations' =
                                 Append(invocations,
                                        [name |-> toCall[1].name,
                                         function |-> toCall[1].function,
                                         parsed |-> TRUE,
                                         arguments |-> message.functionCall[1].arguments])
                          /\ pc' = "function"
                          /\ UNCHANGED thrown
           /\ responseMessage' = Some(message)
    /\ UNCHANGED <<messages, config, aside, results, turns, query, availableLlmFunctions, newMessages,
                   request, completionCalls>>

\* Mutant of UnmatchedFunctionCall: the unanswered call is echoed into the conversation.
UnmatchedFunctionCallEchoed(choices) ==
    /\ pc = "getChatCompletions"
    /\ getChatMessageFromOpenAiResponse(choices) # Undefined
    /\ LET message == getChatMessageFromOpenAiResponse(choices)[1]
       IN  /\ message.functionCall # Undefined
           /\ LET toCall == FindFunction(availableLlmFunctions, message.functionCall[1].name)
              IN  /\ ~ (toCall # Undefined /\ toCall[1].dynamic)
                  /\ ~ (toCall # Undefined /\ toCall[1].name = FindApiSpecActionName)
                  /\ functionToCall' = toCall
           /\ responseMessage' = Some(message)
           /\ newMessages' = Append(newMessages, message)
    /\ pc' = "returned"
    /\ UNCHANGED <<messages, config, aside, results, turns, query, availableLlmFunctions,
                   request, completionCalls, invocations, thrown>>

\* handleOpenAiFunctionCall when neither branch is taken
UnmatchedFunctionCall(choices) ==
    /\ pc = "getChatCompletions"
    /\ getChatMessageFromOpenAiResponse(choices) # Undefined
    /\ LET message == getChatMessageFromOpenAiResponse(choices)[1]
       IN  /\ message.functionCall # Undefined
           /\ LET toCall == FindFunction(availableLlmFunctions, message.functionCall[1].name)
              IN  /\ ~ (toCall # Undefined /\ toCall[1].dynamic)
                  /\ ~ (toCall # Undefined /\ toCall[1].name = FindApiSpecActionName)
                  /\ functionToCall' = toCall
           /\ responseMessage' = Some(message)
    /\ pc' = "returned"
    /\ UNCHANGED <<messages, config, aside, results, turns, query, availableLlmFunctions, newMessages,
                   request, completionCalls, invocations, thrown>>

(***************************************************************************)
(* handleOpenAiFunctionCall after the called function settled              *)
(***************************************************************************)
FunctionMessage(name, content, functions) ==
    Message("function", Some(content), Some(name), Undefined, Some(functions))

\* newMessages.push(responseMessage, {role: "function", ...})
PushCallAndResult(msgs, call, result) == msgs \o <<call, result>>

\* Mutant of DynamicResultMessage: the result carries the called function only.
DynamicResultMessageCalledOnly(toCall, response, llmFunctions) ==
    FunctionMessage(toCall.name,
                    IF response.isString THEN response.body ELSE JSONstringify(response),
                    <<toCall.persistedFunction>>)

\* {role: "function", name: functionToCall.name, content: ..., functions: ...}
DynamicResultMessage(toCall, response, llmFunctions) ==
    FunctionMessage(toCall.name,
                    IF response.isString THEN response.body ELSE JSONstringify(response),
                    MapPersistedFunction(llmFunctions))

DynamicFunctionResolves(response) ==
    /\ pc = "function"
    /\ functionToCall[1].dynamic
    /\ functionResponse' = Some(response)
    /\ newMessages' =
           PushCallAndResult(
               newMessages,
               responseMessage[1],
               DynamicResultMessage(functionToCall[1], response, availableLlmFunctions))
    /\ pc' = "returned"
    /\ UNCHANGED <<messages, config, aside, apiSpecActions, turns, query, availableLlmFunctions, request,
                   responseMessage, functionToCall, completionCalls, invocations, thrown>>

FoundContent(found) ==
    IF Len(found) # 0
    THEN <<"Found the following function(s) to use:", "\n", "- ">>
         \o Join(MapName(found), "\n- ")
         \o <<"\n", "\n", "They have been added to your set of available functions. [...]">>
    ELSE <<"No function found in the API spec. Try asking the user for more information.">>

\* Mutant of ExpandedFunctions: the found actions replace the window.
ExpandedFunctionsOnlyFound(llmFunctions, found) == found

\* functions: [...availableLlmFunctions.map(fxn => fxn.persistedFunction), ...apiSpecActions]
ExpandedFunctions(llmFunctions, found) == MapPersistedFunction(llmFunctions) \o found

\* Mutant of FindApiSpecActionResolves: the result is sent back to the completion
\* service within the same call.
FindApiSpecActionResolvesAndLoops(found) ==
    /\ pc = "function"
    /\ ~ functionToCall[1].dynamic
    /\ apiSpecActions' = Some(found)
    /\ newMessages' =
           PushCallAndResult(
               newMessages,
               responseMessage[1],
               FunctionMessage(functionToCall[1].name,
                               FoundContent(found),
                               ExpandedFunctions(availableLlmFunctions, found)))
    /\ completionCalls' = completionCalls + 1
    /\ pc' = "getChatCompletions"
    /\ UNCHANGED <<messages, config, aside, functionResponse, turns, query, availableLlmFunctions,
                   request, responseMessage, functionToCall, invocations, thrown>>

FindApiSpecActionResolves(found) ==
    /\ pc = "function"
    /\ ~ functionToCall[1].dynamic
    /\ apiSpecActions' = Some(found)
    /\ newMessages' =
           PushCallAndResult(
               newMessages,
               responseMessage[1],
               FunctionMessage(functionToCall[1].name,
                               FoundContent(found),
                               ExpandedFunctions(availableLlmFunctions, found)))
    /\ pc' = "returned"
    /\ UNCHANGED <<messages, config, aside, functionResponse, turns, query, availableLlmFunctions, request,
                   responseMessage, functionToCall, completionCalls, invocations, thrown>>

\* the awaited function rejects: nothing catches it
FunctionRejects ==
    /\ pc = "function"
    /\ Throw("function rejected")
    /\ UNCHANGED <<messages, config, aside, results, turns, query, availableLlmFunctions, newMessages,
                   request, responseMessage, functionToCall, completionCalls, invocations>>

(***************************************************************************)
(* The caller                                                              *)
(***************************************************************************)
ForgetCall ==
    /\ pc' = "idle"
    /\ query' = Undefined
    /\ availableLlmFunctions' = <<>>
    /\ newMessages' = <<>>
    /\ request' = Undefined
    /\ responseMessage' = Undefined
    /\ functionToCall' = Undefined
    /\ completionCalls' = 0
    /\ invocations' = <<>>
    /\ functionResponse' = Undefined
    /\ apiSpecActions' = Undefined
    /\ thrown' = Undefined

\* the caller carries on with the returned sequence
CallerContinues ==
    /\ pc = "returned"
    /\ messages' = newMessages
    /\ ForgetCall
    /\ UNCHANGED <<config, aside, turns>>

\* the caller keeps its own sequence after a failed call
CallerCatches ==
    /\ pc = "threw"
    /\ ForgetCall
    /\ UNCHANGED <<messages, config, aside, turns>>

Next ==
    \/ \E q \in Queries : AnswerAwaited(q)
    \/ \E choices \in ChatCompletions : NoMessageReturned(choices)
    \/ \E choices \in ChatCompletions : PlainReply(choices)
    \/ \E choices \in ChatCompletions : CallDynamicFunction(choices)
    \/ \E choices \in ChatCompletions : CallFindApiSpecAction(choices)
    \/ \E choices \in ChatCompletions : UnmatchedFunctionCall(choices)
    \/ \E response \in HttpResponses : DynamicFunctionResolves(response)
    \/ \E found \in FoundLists : FindApiSpecActionResolves(found)
    \/ FunctionRejects
    \/ CallerContinues
    \/ CallerCatches

Spec == Init /\ [][Next]_vars

(***************************************************************************)
(* The rewrite on its own: answerAwaited is called once on an arbitrary     *)
(* prior conversation.                                                     *)
(***************************************************************************)
PriorMessagePool ==
    {SystemMessage(<<"stale prompt">>),
     UserMessage(<<"hello">>),
     TagWithFunctions(PlainResponseMessage, baseFunctions),
     FunctionMessage("getWeather", <<"sunny">>,
                     <<baseOpenAiFunctionDefinition, HttpDefinition("getWeather")>>),
     FunctionMessage("bookFlight", <<"booked">>,
                     <<baseOpenAiFunctionDefinition, HttpDefinition("bookFlight"),
                       HttpDefinition("getWeather")>>)}

PriorConversations == UNION {[1..n -> PriorMessagePool] : n \in 0..MaxPrior}

InitRewrite ==
    /\ messages \in PriorConversations
    /\ maxNumDynamicFunctions \in 0..MaxCap
    /\ staticHttpRequestArgs \in StaticArgsChoices
    /\ turns = 0
    /\ pc = "idle"
    /\ query = Undefined
    /\ availableLlmFunctions = <<>>
    /\ newMessages = <<>>
    /\ request = Undefined
    /\ responseMessage = Undefined
    /\ functionToCall = Undefined
    /\ completionCalls = 0
    /\ invocations = <<>>
    /\ functionResponse = Undefined
    /\ apiSpecActions = Undefined
    /\ thrown = Undefined
    /\ NothingAside

NextRewrite == \E q \in Queries : AnswerAwaited(q)

SpecRewrite == InitRewrite /\ [][NextRewrite]_vars

(***************************************************************************)
(* getMaxAvailableFunctionDefinitions on its own: one call on arbitrary     *)
(* arguments.                                                              *)
(***************************************************************************)
\* no answerAwaited call is running
NoCall ==
    /\ messages = <<>>
    /\ maxNumDynamicFunctions = 0
    /\ staticHttpRequestArgs = Undefined
    /\ turns = 0
    /\ pc = "idle"
    /\ query = Undefined
    /\ availableLlmFunctions = <<>>
    /\ newMessages = <<>>
    /\ request = Undefined
    /\ responseMessage = Undefined
    /\ functionToCall = Undefined
    /\ completionCalls = 0
    /\ invocations = <<>>
    /\ functionResponse = Undefined
    /\ apiSpecActions = Undefined
    /\ thrown = Undefined

BaseDefinitionLists ==
    UNION {[1..n -> {baseOpenAiFunctionDefinition, HttpDefinition("getWeather")}] :
               n \in 0..MaxBase}

CarriedDefinitionLists ==
    UNION {[1..n -> {baseOpenAiFunctionDefinition} \cup CatalogDefinitions] :
               n \in 0..MaxCarried}

InitWindow ==
    /\ NoCall
    /\ suspended = Undefined
    /\ overlapped = FALSE
    /\ windowArgs \in
           {Some([availableFunctionDefinitions |-> carried,
                  baseFunctionDefinitions |-> base,
                  maxNumDynamicFunctions |-> max]) :
                carried \in CarriedDefinitionLists,
                base \in BaseDefinitionLists,
                max \in 0..MaxCarried}
    /\ windowResult = Undefined

CallGetMaxAvailableFunctionDefinitions ==
    /\ windowArgs # Undefined
    /\ windowResult = Undefined
    /\ windowResult' =
           Some(getMaxAvailableFunctionDefinitions(
                    windowArgs[1].availableFunctionDefinitions,
                    windowArgs[1].baseFunctionDefinitions,
                    windowArgs[1].maxNumDynamicFunctions))
    /\ UNCHANGED <<messages, config, turns, pc, query, availableLlmFunctions, newMessages,
                   request, responseMessage, functionToCall, completionCalls, invocations,
                   results, thrown, suspended, overlapped, windowArgs>>

NextWindowCall == CallGetMaxAvailableFunctionDefinitions

SpecWindow == InitWindow /\ [][NextWindowCall]_vars

(***************************************************************************)
(* Two conversations: one call of answerAwaited for each, on the same       *)
(* instance, the two interleaved at their awaits.                          *)
(***************************************************************************)
\* the parameters and locals of the running call, with its caller's conversation
RunningCall ==
    [messages |-> messages,
     turns |-> turns,
     pc |-> pc,
     query |-> query,
     availableLlmFunctions |-> availableLlmFunctions,
     newMessages |-> newMessages,
     request |-> request,
     responseMessage |-> responseMessage,
     functionToCall |-> functionToCall,
     completionCalls |-> completionCalls,
     invocations |-> invocations,
     functionResponse |-> functionResponse,
     apiSpecActions |-> apiSpecActions,
     thrown |-> thrown]

\* a conversation on which answerAwaited is about to be called once
NotYetCalled(msgs) ==
    [messages |-> msgs,
     turns |-> MaxTurns - 1,
     pc |-> "idle",
     query |-> Undefined,
     availableLlmFunctions |-> <<>>,
     newMessages |-> <<>>,
     request |-> Undefined,
     responseMessage |-> Undefined,
     functionToCall |-> Undefined,
     completionCalls |-> 0,
     invocations |-> <<>>,
     functionResponse |-> Undefined,
     apiSpecActions |-> Undefined,
     thrown |-> Undefined]

OneConversation == <<UserMessage(<<"hello">>)>>

OtherConversation ==
    <<UserMessage(<<"hello">>),
      FunctionMessage(FindApiSpecActionName, FoundContent(<<HttpDefinition("getWeather")>>),
                      <<baseOpenAiFunctionDefinition, HttpDefinition("getWeather")>>)>>

Pending(call) == call.pc \in {"getChatCompletions", "function"}

InitConcurrent ==
    /\ messages = OneConversation
    /\ maxNumDynamicFunctions \in 0..MaxCap
    /\ staticHttpRequestArgs = Undefined
    /\ turns = MaxTurns - 1
    /\ pc = "idle"
    /\ query = Undefined
    /\ availableLlmFunctions = <<>>
    /\ newMessages = <<>>
    /\ request = Undefined
    /\ responseMessage = Undefined
    /\ functionToCall = Undefined
    /\ completionCalls = 0
    /\ invocations = <<>>
    /\ functionResponse = Undefined
    /\ apiSpecActions = Undefined
    /\ thrown = Undefined
    /\ suspended = Some(NotYetCalled(OtherConversation))
    /\ overlapped = FALSE
    /\ windowArgs = Undefined
    /\ windowResult = Undefined

\* Mutant of ResumeOtherCall: availableLlmFunctions is kept by the instance, so
\* the resumed call goes on with the window the other call computed.
ResumeOtherCallWithSharedWindow ==
    /\ suspended # Undefined
    /\ suspended' = Some(RunningCall)
    /\ overlapped' = (overlapped \/ (Pending(RunningCall) /\ Pending(suspended[1])))
    /\ messages' = suspended[1].messages
    /\ turns' = suspended[1].turns
    /\ pc' = suspended[1].pc
    /\ query' = suspended[1].query
    /\ newMessages' = suspended[1].newMessages
    /\ request' = suspended[1].request
    /\ responseMessage' = suspended[1].responseMessage
    /\ functionToCall' = suspended[1].functionToCall
    /\ completionCalls' = suspended[1].completionCalls
    /\ invocations' = suspended[1].invocations
    /\ functionResponse' = suspended[1].functionResponse
    /\ apiSpecActions' = suspended[1].apiSpecActions
    /\ thrown' = suspended[1].thrown
    /\ UNCHANGED <<config, availableLlmFunctions, windowArgs, windowResult>>

\* the running call waits at an await (or has not started, or has ended) and the
\* other call goes on, with its own parameters and locals
ResumeOtherCall ==
    /\ suspended # Undefined
    /\ suspended' = Some(RunningCall)
    /\ overlapped' = (overlapped \/ (Pending(RunningCall) /\ Pending(suspended[1])))
    /\ messages' = suspended[1].messages
    /\ turns' = suspended[1].turns
    /\ pc' = suspended[1].pc
    /\ query' = suspended[1].query
    /\ availableLlmFunctions' = suspended[1].availableLlmFunctions
    /\ newMessages' = suspended[1].newMessages
    /\ request' = suspended[1].request
    /\ responseMessage' = suspended[1].responseMessage
    /\ functionToCall' = suspended[1].functionToCall
    /\ completionCalls' = suspended[1].completionCalls
    /\ invocations' = suspended[1].invocations
    /\ functionResponse' = suspended[1].functionResponse
    /\ apiSpecActions' = suspended[1].apiSpecActions
    /\ thrown' = suspended[1].thrown
    /\ UNCHANGED <<config, windowArgs, windowResult>>

NextConcurrent ==
    \/ \E q \in Queries : AnswerAwaited(q)
    \/ \E choices \in ChatCompletions : NoMessageReturned(choices)
    \/ \E choices \in ChatCompletions : PlainReply(choices)
    \/ \E choices \in ChatCompletions : CallDynamicFunction(choices)
    \/ \E choices \in ChatCompletions : CallFindApiSpecAction(choices)
    \/ \E choices \in ChatCompletions : UnmatchedFunctionCall(choices)
    \/ \E response \in HttpResponses : DynamicFunctionResolves(response)
    \/ \E found \in FoundLists : FindApiSpecActionResolves(found)
    \/ FunctionRejects
    \/ ResumeOtherCall

SpecConcurrent == InitConcurrent /\ [][NextConcurrent]_vars

(***************************************************************************)
(* Properties                                                              *)
(***************************************************************************)
\* the window of the running call has been computed and sent
WindowSent == request # Undefined

\* the definitions of the window, as sent to getChatCompletions
ActiveDefinitions == request[1].functions

\* the list carried by the last message of the caller's conversation
Carried == LastFunctions(messages)

NamesOf(defs) == {defs[i].name : i \in 1..Len(defs)}

DynamicOf(llmFunctions) == {i \in 1..Len(llmFunctions) : llmFunctions[i].dynamic}

\* C1: on every turn the window sent to the completion service contains the
\* reserved catalog-search tool find_api_spec_action.
C1_BasePresence ==
    WindowSent => FindApiSpecActionName \in NamesOf(ActiveDefinitions)

\* C2: on every turn the window holds at most maxNumDynamicFunctions dynamic
\* (non-base) tools.
C2_WindowBound ==
    WindowSent => Cardinality(DynamicOf(availableLlmFunctions)) <= maxNumDynamicFunctions

\* C3: when the base list and the carried list both hold a tool named n, the
\* window holds exactly one tool named n, and it is the base definition.
C3_DedupBaseWins ==
    WindowSent =>
        \A n \in NamesOf(MapPersistedFunction(baseFunctions)) \cap NamesOf(Carried) :
            /\ Cardinality({i \in 1..Len(ActiveDefinitions) : ActiveDefinitions[i].name = n}) = 1
            /\ \A i \in 1..Len(ActiveDefinitions) :
                   ActiveDefinitions[i].name = n
                   => /\ ActiveDefinitions[i] \in Range(MapPersistedFunction(baseFunctions))
                      /\ availableLlmFunctions[i] \in Range(baseFunctions)

\* C4: on every turn no two tools of the window (as sent to the completion
\* service and as used by the dispatcher) have the same name, whatever the
\* carried list holds.
C4_NameUniqueness ==
    WindowSent =>
        /\ \A i, j \in 1..Len(ActiveDefinitions) :
               ActiveDefinitions[i].name = ActiveDefinitions[j].name => i = j
        /\ \A i, j \in 1..Len(availableLlmFunctions) :
               availableLlmFunctions[i].persistedFunction.name
                   = availableLlmFunctions[j].persistedFunction.name => i = j

\* a window computed from a carried list that repeats a name
C4_Witness ==
    /\ WindowSent
    /\ \E i, j \in 1..Len(Carried) : i # j /\ Carried[i].name = Carried[j].name
    /\ Len(ActiveDefinitions) >= 1

\* what updateConversationWithNewSystemPrompt returned to the running call
Rewritten ==
    updateConversationWithNewSystemPrompt(
        baseSystemPrompt, availableLlmFunctions, messages, query, staticHttpRequestArgs)

\* the completion service answered the running call with a function call
CallRequested == responseMessage # Undefined /\ responseMessage[1].functionCall # Undefined

RequestedName == responseMessage[1].functionCall[1].name

LastOf(msgs) == msgs[Len(msgs)]

NothingFoundText ==
    <<"No function found in the API spec. Try asking the user for more information.">>

\* C5: when the completion asks for find_api_spec_action and the catalog search
\* returns the list F, the turn appends exactly the tool-call echo and then a
\* function-result message whose functions hold exactly the window's
\* definitions and those of F; with F empty the content is the nothing-found
\* text and the functions are the window.
C5_SearchExpansion ==
    (pc = "returned" /\ apiSpecActions # Undefined) =>
        LET F == apiSpecActions[1]
            n == Len(newMessages)
        IN  /\ RequestedName = FindApiSpecActionName
            /\ n = Len(Rewritten) + 2
            /\ SubSeq(newMessages, 1, n - 2) = Rewritten
            /\ newMessages[n - 1] = responseMessage[1]
            /\ newMessages[n].role = "function"
            /\ newMessages[n].name = Some(FindApiSpecActionName)
            /\ newMessages[n].functions # Undefined
            /\ Range(newMessages[n].functions[1]) = Range(ActiveDefinitions) \cup Range(F)
            /\ F = <<>> => /\ newMessages[n].content = Some(NothingFoundText)
                           /\ newMessages[n].functions[1] = ActiveDefinitions
            /\ F # <<>> => newMessages[n].content # Some(NothingFoundText)

\* a search that returned a definition the window did not hold
C5_Witness ==
    /\ pc = "returned"
    /\ apiSpecActions # Undefined
    /\ Range(apiSpecActions[1]) \ Range(ActiveDefinitions) # {}
    /\ Len(ActiveDefinitions) >= 1

\* C6: when the completion asks for a dynamic tool of the window, that tool is
\* invoked exactly once and the turn appends exactly the tool-call request and
\* then a function-result message named after the tool, whose functions are
\* the window.
C6_DynamicDispatch ==
    /\ (CallRequested
        /\ \E i \in DynamicOf(availableLlmFunctions) :
               availableLlmFunctions[i].persistedFunction.name = RequestedName)
       => /\ Len(invocations) = 1
          /\ invocations[1].name = RequestedName
          /\ invocations[1].function = "executeHttpApiRequest"
          /\ pc \in {"function", "returned", "threw"}
          /\ pc = "returned" => functionResponse # Undefined
    /\ (pc = "returned" /\ functionResponse # Undefined) =>
        LET n == Len(newMessages)
        IN  /\ n = Len(Rewritten) + 2
            /\ SubSeq(newMessages, 1, n - 2) = Rewritten
            /\ newMessages[n - 1] = responseMessage[1]
            /\ newMessages[n - 1].functionCall # Undefined
            /\ newMessages[n].role = "function"
            /\ newMessages[n].name = Some(RequestedName)
            /\ newMessages[n].functions = Some(ActiveDefinitions)

\* a dynamic tool was called and answered
C6_Witness ==
    /\ pc = "returned"
    /\ functionResponse # Undefined
    /\ Len(invocations) = 1
    /\ RequestedName \in DynamicNames

\* C7: when the completion asks for a name that matches no tool of the window,
\* the turn raises no error, invokes nothing and appends nothing: it returns
\* the rewritten conversation.
C7_UnmatchedToolCall ==
    (CallRequested /\ RequestedName \notin NamesOf(ActiveDefinitions)) =>
        /\ pc = "returned"
        /\ thrown = Undefined
        /\ invocations = <<>>
        /\ newMessages = Rewritten

\* a call for a name outside the window returned
C7_Witness ==
    /\ pc = "returned"
    /\ CallRequested
    /\ RequestedName \notin NamesOf(ActiveDefinitions)
    /\ Len(newMessages) >= 2

\* C8: when the completion answers without a tool call, the turn returns the
\* rewritten conversation followed by exactly the assistant reply, tagged with
\* the window, and no tool is invoked.
C8_PlainReply ==
    (responseMessage # Undefined /\ responseMessage[1].functionCall = Undefined) =>
        /\ pc = "returned"
        /\ thrown = Undefined
        /\ invocations = <<>>
        /\ Len(newMessages) = Len(Rewritten) + 1
        /\ SubSeq(newMessages, 1, Len(Rewritten)) = Rewritten
        /\ LastOf(newMessages).role = "assistant"
        /\ LastOf(newMessages).content = responseMessage[1].content
        /\ LastOf(newMessages).functions = Some(ActiveDefinitions)

\* a plain reply returned in a window that holds a dynamic tool
C8_Witness ==
    /\ pc = "returned"
    /\ responseMessage # Undefined
    /\ responseMessage[1].functionCall = Undefined
    /\ DynamicOf(availableLlmFunctions) # {}

\* C10: a call of answerAwaited makes at most one completion call and at most
\* one tool invocation, and no completion call follows a tool result within
\* the call.
C10_OneTurnOneStep ==
    /\ completionCalls <= 1
    /\ Len(invocations) <= 1
    /\ (functionResponse # Undefined \/ apiSpecActions # Undefined)
       => (pc = "returned" /\ completionCalls = 1 /\ Len(invocations) = 1)

\* a call returned after one completion call and one tool invocation
C10_Witness ==
    /\ pc = "returned"
    /\ completionCalls = 1
    /\ Len(invocations) = 1
    /\ apiSpecActions # Undefined

\* positions of the messages of the prior conversation that are not system messages
NonSystemPositions == {i \in 1..Len(messages) : messages[i].role # "system"}

\* how many non-system messages the prior conversation holds up to position i
RankOf(i) == Cardinality({j \in NonSystemPositions : j <= i})

\* C9: for every prior sequence the rewrite returns exactly one system message,
\* at index 0 and carrying the freshly composed prompt, followed by all prior
\* non-system messages in their original order, none dropped or duplicated
\* (an appended user message can only follow them).
C9_RewriteShape ==
    pc = "getChatCompletions" =>
        LET k == Cardinality(NonSystemPositions)
        IN  /\ newMessages[1].role = "system"
            /\ newMessages[1].content =
                   Some(makeSystemPrompt(baseSystemPrompt, availableLlmFunctions,
                                         staticHttpRequestArgs))
            /\ \A i \in 2..Len(newMessages) : newMessages[i].role # "system"
            /\ \A i \in NonSystemPositions : newMessages[1 + RankOf(i)] = messages[i]
            /\ Len(newMessages) \in {1 + k, 2 + k}
            /\ Len(newMessages) = 2 + k
               => /\ Truthy(query)
                  /\ LastOf(newMessages) = UserMessage(query[1])

\* a rewrite of a prior conversation with two system messages, one of them
\* last, and two other messages
C9_Witness ==
    /\ pc = "getChatCompletions"
    /\ Len(messages) - Cardinality(NonSystemPositions) >= 2
    /\ Cardinality(NonSystemPositions) >= 2
    /\ messages[Len(messages)].role = "system"
    /\ messages[1].role # "system"

NoMessageError == "No message returned from OpenAI API"

\* C11: when the completion service returns no choice, or a first choice
\* without a message, the call ends in an error surfaced to the caller: no tool
\* is invoked, no sequence is returned, the completion call is not repeated and
\* the caller's sequence is unchanged.
C11_NoResponseFailure ==
    /\ [](thrown = Some(NoMessageError)
          => /\ pc = "threw"
             /\ invocations = <<>>
             /\ completionCalls = 1
             /\ responseMessage = Undefined)
    /\ [](pc = "getChatCompletions" => completionCalls = 1)
    /\ [][(thrown = Undefined /\ thrown' = Some(NoMessageError))
          => /\ pc = "getChatCompletions"
             /\ messages' = messages
             /\ newMessages' = newMessages]_vars
    /\ [][thrown = Some(NoMessageError)
          => (pc' = "idle" /\ messages' = messages /\ completionCalls' = 0)]_vars

\* the call failed for want of a message, on a conversation with a history
C11_Witness ==
    /\ pc = "threw"
    /\ thrown = Some(NoMessageError)
    /\ Len(messages) >= 2

\* the completion service asked for a tool of the window
MatchedCall == CallRequested /\ RequestedName \in NamesOf(ActiveDefinitions)

\* C12: for every tool call that matches a tool of the window, in the dynamic
\* branch as in the catalog-search branch, the argument payload is parsed before
\* the tool is invoked, and an unparseable payload makes the call fail with the
\* tool not invoked and no message appended.
C12_MalformedArguments ==
    /\ \A i \in 1..Len(invocations) : invocations[i].parsed
    /\ (MatchedCall /\ JSONparse(responseMessage[1].functionCall[1].arguments) = Undefined)
       => /\ pc = "threw"
          /\ thrown = Some("SyntaxError")
          /\ invocations = <<>>
          /\ newMessages = Rewritten

\* names of the dynamic tools of a window
DynamicNamesOf(llmFunctions) ==
    {llmFunctions[i].persistedFunction.name : i \in DynamicOf(llmFunctions)}

\* the window the next call would compute from a returned sequence
NextWindow(msgs) ==
    makeAvailableLlmFunctionsFromFunctionDefinitions(
        LastFunctions(msgs), baseFunctions, maxNumDynamicFunctions)

\* C13: after every call that returns, the window the next call computes from
\* the functions snapshot of the last message of the returned sequence holds
\* every dynamic tool of this call's window.
C13_WindowCarryOver ==
    pc = "returned" =>
        DynamicNamesOf(availableLlmFunctions) \subseteq DynamicNamesOf(NextWindow(newMessages))

\* C14: no step of a call changes the caller's message sequence, and with it
\* the carried list; only the caller, taking up what was returned, replaces it.
\* (The base list is the constant baseFunctions.)
C14_NoMutationOfInputs ==
    [][pc # "returned" => messages' = messages]_vars

\* a call that ran the eviction pass and appended two messages to its own copy
C14_Witness ==
    /\ pc = "returned"
    /\ messages # <<>>
    /\ Len(Carried) > maxNumDynamicFunctions
    /\ Len(newMessages) >= Len(messages) + 2

\* the system prompt the running call composed
ComposedPrompt == newMessages[1].content[1]

BlockOpening == "Call the functions "

BlockClosing == " only when you have all necessary parameters [...]"

BlockPositions == {i \in 1..Len(ComposedPrompt) : ComposedPrompt[i] = BlockOpening}

\* the position in the window of its k-th dynamic tool
KthDynamic(k) ==
    CHOOSE i \in DynamicOf(availableLlmFunctions) :
        Cardinality({j \in DynamicOf(availableLlmFunctions) : j <= i}) = k

ContextBlock ==
    IF staticHttpRequestArgs = Undefined
    THEN <<>>
    ELSE <<"\n">> \o makeUserSystemPromptContext(staticHttpRequestArgs[1])

\* C16: the prompt holds the tool-usage block if and only if the window holds a
\* dynamic tool; the block names exactly the dynamic tools, in window order;
\* without a dynamic tool the prompt is the base prompt followed only by the
\* optional context block.
C16_ToolUsageBlock ==
    pc = "getChatCompletions" =>
        LET d == Cardinality(DynamicOf(availableLlmFunctions))
            b == Len(baseSystemPrompt)
        IN  /\ (BlockPositions # {}) <=> (d > 0)
            /\ d = 0 => ComposedPrompt = baseSystemPrompt \o ContextBlock
            /\ d > 0 =>
                 /\ BlockPositions = {b + 1}
                 /\ SubSeq(ComposedPrompt, 1, b) = baseSystemPrompt
                 /\ \A k \in 1..d :
                        ComposedPrompt[b + 2 * k] =
                            availableLlmFunctions[KthDynamic(k)].persistedFunction.name
                 /\ \A k \in 1..(d - 1) : ComposedPrompt[b + 2 * k + 1] = ", "
                 /\ ComposedPrompt[b + 2 * d + 1] = BlockClosing
                 /\ SubSeq(ComposedPrompt, b + 2 * d + 2, Len(ComposedPrompt)) = ContextBlock

\* a prompt composed for a window of two dynamic tools
C16_Witness ==
    /\ pc = "getChatCompletions"
    /\ Cardinality(DynamicOf(availableLlmFunctions)) = 2
    /\ BlockPositions # {}

\* a prompt composed for a window of the base tool alone, with a context block
C16_WitnessNoDynamic ==
    /\ pc = "getChatCompletions"
    /\ Len(availableLlmFunctions) = 1
    /\ DynamicOf(availableLlmFunctions) = {}
    /\ staticHttpRequestArgs # Undefined

\* C17: whenever a query is provided, the empty string included, the rewritten
\* conversation ends with exactly one new user message carrying it; when none
\* is provided no user message is added.
C17_NewUserQuery ==
    pc = "getChatCompletions" =>
        LET k == Cardinality(NonSystemPositions)
        IN  /\ query # Undefined
               => /\ Len(newMessages) = k + 2
                  /\ LastOf(newMessages) = UserMessage(query[1])
            /\ query = Undefined => Len(newMessages) = k + 1

BaseNames == NamesOf(MapPersistedFunction(baseFunctions))

\* the running call ended in a plain reply or in a matched tool call
EndedInReplyOrMatchedCall ==
    /\ pc = "returned"
    /\ \/ responseMessage[1].functionCall = Undefined
       \/ functionResponse # Undefined
       \/ apiSpecActions # Undefined

C20_ReservedNameNeverDynamic ==
    /\ WindowSent =>
           \A i \in 1..Len(availableLlmFunctions) :
               availableLlmFunctions[i].name = FindApiSpecActionName
                   => availableLlmFunctions[i] = makeFindApiSpecAction
    /\ \A i \in 1..Len(invocations) :
           /\ invocations[i].function = "executeHttpApiRequest"
                  => invocations[i].name # FindApiSpecActionName
           /\ invocations[i].name = FindApiSpecActionName
                  => invocations[i].function = "findApiSpecFunctionDefinition"
    /\ ~ (functionResponse # Undefined /\ apiSpecActions # Undefined)

\* the search is called while the carried list holds an HTTP definition that
\* uses the reserved name
C20_Witness ==
    /\ WindowSent
    /\ HttpDefinition(FindApiSpecActionName) \in Range(Carried)
    /\ invocations # <<>>
    /\ invocations[1].name = FindApiSpecActionName

\* the elements of seq at the positions in keep, in the order of seq
RECURSIVE PickFrom(_, _, _)
PickFrom(seq, keep, i) ==
    IF i > Len(seq) THEN <<>>
    ELSE (IF i \in keep THEN <<seq[i]>> ELSE <<>>) \o PickFrom(seq, keep, i + 1)

WindowBase == windowArgs[1].baseFunctionDefinitions

WindowCarried == windowArgs[1].availableFunctionDefinitions

WindowMax == windowArgs[1].maxNumDynamicFunctions

WindowMerged == WindowBase \o WindowCarried

\* the positions of the concatenation that hold the first definition of their name
FirstOfName ==
    {i \in 1..Len(WindowMerged) :
        \A j \in 1..(i - 1) : WindowMerged[j].name # WindowMerged[i].name}

\* 0-based position, counted from the end, in the deduplicated list
FromEnd(i) == Cardinality({j \in FirstOfName : j > i})

\* the reference: what the window is said to be
ReferenceWindow ==
    IF Len(WindowCarried) <= WindowMax
    THEN PickFrom(WindowMerged, FirstOfName, 1)
    ELSE PickFrom(WindowMerged,
                  {i \in FirstOfName :
                      \/ FromEnd(i) <= WindowMax
                      \/ WindowMerged[i].name \notin NamesOf(WindowBase)},
                  1)

C18_WitnessSkipped ==
    /\ windowResult # Undefined
    /\ Len(WindowCarried) <= WindowMax
    /\ Len(WindowCarried) > 0
    /\ Len(windowResult[1]) < Len(WindowMerged)

\* what one call of answerAwaited returns when nothing else runs: its steps in
\* sequence, on the call's own parameters and on the answers it was given
ReturnedAlone(call) ==
    LET window == NextWindow(call.messages)
        rewritten ==
            updateConversationWithNewSystemPrompt(
                baseSystemPrompt, window, call.messages, call.query, staticHttpRequestArgs)
        message == call.responseMessage[1]
    IN  IF message.functionCall = Undefined
        THEN Append(rewritten, TagWithFunctions(message, window))
        ELSE LET toCall == FindFunction(window, message.functionCall[1].name)
             IN  IF toCall # Undefined /\ toCall[1].dynamic
                 THEN PushCallAndResult(
                          rewritten, message,
                          DynamicResultMessage(toCall[1], call.functionResponse[1], window))
                 ELSE IF toCall # Undefined /\ toCall[1].name = FindApiSpecActionName
                 THEN PushCallAndResult(
                          rewritten, message,
                          FunctionMessage(toCall[1].name,
                                          FoundContent(call.apiSpecActions[1]),
                                          ExpandedFunctions(window, call.apiSpecActions[1])))
                 ELSE rewritten

BothCalls == {RunningCall, suspended[1]}

\* C15: with the steps of two calls for two conversations interleaved in any
\* order, each call works on the window of its own conversation and returns the
\* sequence it returns when run alone; the instance's own state is never written.
C15_Independence ==
    /\ [](\A call \in BothCalls :
              /\ (Pending(call) \/ call.pc = "returned")
                     => call.availableLlmFunctions = NextWindow(call.messages)
              /\ call.pc = "returned" => call.newMessages = ReturnedAlone(call)
              /\ call.messages \in {OneConversation, OtherConversation})
    /\ [][maxNumDynamicFunctions' = maxNumDynamicFunctions]_vars

\* both calls were pending at once and both have returned, each after calling a
\* function of its own window
C15_Witness ==
    /\ overlapped
    /\ pc = "returned"
    /\ suspended[1].pc = "returned"
    /\ functionResponse # Undefined
    /\ suspended[1].apiSpecActions # Undefined
    /\ availableLlmFunctions # suspended[1].availableLlmFunctions

\* answerAwaited has been called on an empty conversation with a user query
CalledOnEmptyWithQuery ==
    /\ pc # "idle"
    /\ messages = <<>>
    /\ query # Undefined
    /\ Truthy(query)

\* C21: a call of answerAwaited on an empty conversation with a user query
\* raises no error of its own and reaches the completion call; its window is the
\* base functions only and, when the completion is a plain reply, it returns a
\* system message, the user's message and the reply.
C21_FirstTurnOnEmpty ==
    CalledOnEmptyWithQuery =>
        /\ thrown # Some("TypeError")
        /\ WindowSent
        /\ availableLlmFunctions = baseFunctions
        /\ (pc = "returned" /\ responseMessage[1].functionCall = Undefined)
               => /\ Len(newMessages) = 3
                  /\ newMessages[1].role = "system"
                  /\ newMessages[2] = UserMessage(query[1])
                  /\ newMessages[3] = TagWithFunctions(responseMessage[1], baseFunctions)

====
